---- MODULE Spec2Model ----
(***************************************************************************)
(* A model of the three Brainfuck interpreters of this repository:         *)
(*   "simple"  src/01_simple.py   one instruction per operator character   *)
(*   "batch"   src/02_batch.py    run-length encoded (operator, count)     *)
(*   "main"    src/main.py        as simple, without the debug parameter   *)
(* Each variant is the pipeline parse_code -> build_jump_table -> the      *)
(* while loop of run()/main().  Indices (ip, ptr, positions in error       *)
(* messages, keys of the jump table) are 0-based as in the source; TLA+    *)
(* sequences are 1-based, so instruction ip of a program is code[ip + 1].  *)
(***************************************************************************)
EXTENDS Integers, Sequences, FiniteSets, TLC

VARIABLES
    raw,     \* the source text read from the file, a sequence of characters
    debug,   \* the --debug command line flag (01_simple.py, 02_batch.py)
    zsh,     \* whether "zsh" occurs in the SHELL environment variable
    stdin,   \* the lines standard input has delivered so far, in order
    eof,     \* standard input has reported end of file after those lines
    nep50,   \* the installed numpy is 2 or later (NEP 50 promotion rules)
    m        \* the interpreter state of each variant that is being run

vars == <<raw, debug, zsh, stdin, eof, nep50, m>>

----------------------------------------------------------------------------
(* Bounds of the model *)

\* longest source text of Spec
MaxLen == 3
\* loop iterations a run may take beyond one per character of its source
MaxLoopSteps == 6
\* longest source text of PairSpec
PairMaxLen == 3
\* longest source text of BracketSpec
BracketMaxLen == 4
RunMaxLen == 2
RunMaxCount == 2

----------------------------------------------------------------------------
(* Program constants *)

\* np.zeros(30_000, dtype=np.uint8): the number of cells
TapeSize == 30000
\* np.uint8: cells hold values modulo 2^8
CellMod == 256

\* the eight operators, the string "+-<>.,[]"
Ops == {"+", "-", "<", ">", ".", ",", "[", "]"}

Variants == {"simple", "batch", "main"}

\* Characters of the source texts: the operators and one other character.
Alphabet == Ops \cup {"x"}

\* Lines standard input may deliver, as sequences of character codes:
\* "A", "BC", the empty line, and a line starting with a character whose
\* code (321) does not fit a byte.
Lines == {<<65>>, <<66, 67>>, <<>>, <<321>>}
EOF == <<-1>>

\* Python's None for parse_code's `last`
None == "None"

NoError == [type |-> "none", what |-> "", position |-> -1]
Error(t, w, p) == [type |-> t, what |-> w, position |-> p]

----------------------------------------------------------------------------
(* Python dict and numpy array helpers *)

\* d[k] = v on a dict
DictSet(d, k, v) == [x \in DOMAIN d \cup {k} |-> IF x = k THEN v ELSE d[x]]

EmptyDict == [x \in {} |-> 0]

\* The tape is np.zeros(30_000): it is kept as the function from the indices
\* of its non-zero cells to their values, every other cell being 0.
ZeroTape == [x \in {} |-> 0]

TapeGet(tape, i) == IF i \in DOMAIN tape THEN tape[i] ELSE 0

TapeSet(tape, i, v) ==
    IF v = 0 THEN [x \in DOMAIN tape \ {i} |-> tape[x]]
    ELSE [x \in DOMAIN tape \cup {i} |-> IF x = i THEN v ELSE tape[x]]

\* c * n for a one-character string c: n copies
Repeat(c, n) == [k \in 1..n |-> c]

----------------------------------------------------------------------------
(* parse_code *)

\* 01_simple.py and main.py: "".join(c for c in raw if c in "+-<>.,[]")
IsOp(c) == c \in Ops

parse_code_simple(text) == SelectSeq(text, IsOp)

\* 02_batch.py, the body of `for c in raw` on the locals ops, last, count.
parse_code_body(c, st) ==
    IF c \notin Ops THEN st
    ELSE IF c = st.last THEN [st EXCEPT !.count = @ + 1]
    ELSE [ops   |-> IF st.last # None
                    THEN Append(st.ops, <<st.last, st.count>>)
                    ELSE st.ops,
          last  |-> c,
          count |-> 1]

\* The iterations of `for c in raw` for the characters lo..hi of the text, in
\* order (the range is halved so that a long text does not nest deeply).
RECURSIVE parse_code_loop(_, _, _, _)
parse_code_loop(text, lo, hi, st) ==
    IF lo > hi THEN st
    ELSE IF lo = hi THEN parse_code_body(text[lo], st)
    ELSE LET mid  == (lo + hi) \div 2
             half == parse_code_loop(text, lo, mid, st)
         IN  \* the test has the first half computed before the second starts
             IF half = half THEN parse_code_loop(text, mid + 1, hi, half) ELSE half

\* parse_code_batch without the flush of the last run.
parse_code_batch_noflush(text) ==
    parse_code_loop(text, 1, Len(text), [ops |-> <<>>, last |-> None, count |-> 0]).ops

\* 02_batch.py: the locals, the loop, then the flush of the last run.
parse_code_batch(text) ==
    LET st == parse_code_loop(text, 1, Len(text),
                              [ops |-> <<>>, last |-> None, count |-> 0])
    IN  IF st.last # None THEN Append(st.ops, <<st.last, st.count>>) ELSE st.ops

parse_code(v, text) ==
    IF v = "batch" THEN parse_code_batch(text) ELSE parse_code_simple(text)

\* The operator and the repeat count of instruction ip (0-based) of a program
\* of variant v: code[ip] in 01_simple.py/main.py, ops[ip] in 02_batch.py.
Cmd(v, code, ip) == IF v = "batch" THEN code[ip + 1][1] ELSE code[ip + 1]

Count(v, code, ip) == IF v = "batch" THEN code[ip + 1][2] ELSE 1

----------------------------------------------------------------------------
(* build_jump_table *)

\* build_jump_table_body with a ']' on an empty stack skipped, not refused.
build_jump_table_body_skip(i, c, st) ==
    IF st.error # NoError THEN st
    ELSE IF c = "[" THEN [st EXCEPT !.stack = Append(@, i)]
    ELSE IF c = "]" /\ st.stack # <<>>
    THEN LET open_idx == st.stack[Len(st.stack)] IN
         [st EXCEPT !.stack = SubSeq(@, 1, Len(@) - 1),
                    !.table = DictSet(DictSet(@, open_idx, i), i, open_idx)]
    ELSE st

\* build_jump_table_body popping the oldest open bracket, not the newest.
build_jump_table_body_fifo(i, c, st) ==
    IF st.error # NoError THEN st
    ELSE IF c = "[" THEN [st EXCEPT !.stack = Append(@, i)]
    ELSE IF c = "]"
    THEN IF st.stack = <<>>
         THEN [st EXCEPT !.error = Error("SyntaxError", "]", i)]
         ELSE LET open_idx == st.stack[1] IN
              [st EXCEPT !.stack = Tail(@),
                         !.table = DictSet(DictSet(@, open_idx, i), i, open_idx)]
    ELSE st

\* build_jump_table_body recording the forward jump only.
build_jump_table_body_oneway(i, c, st) ==
    IF st.error # NoError THEN st
    ELSE IF c = "[" THEN [st EXCEPT !.stack = Append(@, i)]
    ELSE IF c = "]"
    THEN IF st.stack = <<>>
         THEN [st EXCEPT !.error = Error("SyntaxError", "]", i)]
         ELSE LET open_idx == st.stack[Len(st.stack)] IN
              [st EXCEPT !.stack = SubSeq(@, 1, Len(@) - 1),
                         !.table = DictSet(@, open_idx, i)]
    ELSE st

\* The body of `for i, c in enumerate(code)` on the locals table and stack;
\* error is the SyntaxError raised, after which nothing more is done.
build_jump_table_body(i, c, st) ==
    IF st.error # NoError THEN st
    ELSE IF c = "[" THEN [st EXCEPT !.stack = Append(@, i)]
    ELSE IF c = "]"
    THEN IF st.stack = <<>>
         THEN [st EXCEPT !.error = Error("SyntaxError", "]", i)]
         ELSE LET open_idx == st.stack[Len(st.stack)] IN
              [st EXCEPT !.stack = SubSeq(@, 1, Len(@) - 1),
                         !.table = DictSet(DictSet(@, open_idx, i), i, open_idx)]
    ELSE st

\* The iterations of the loop for the indices lo..hi, in order (halved as in
\* parse_code_loop).
RECURSIVE build_jump_table_loop(_, _, _, _, _)
build_jump_table_loop(v, code, lo, hi, st) ==
    IF lo > hi THEN st
    ELSE IF lo = hi THEN build_jump_table_body(lo, Cmd(v, code, lo), st)
    ELSE LET mid  == (lo + hi) \div 2
             half == build_jump_table_loop(v, code, lo, mid, st)
         IN  IF half = half THEN build_jump_table_loop(v, code, mid + 1, hi, half)
             ELSE half

\* UnmatchedOpen reporting the first '[' pushed.
UnmatchedOpen_first(stack) == stack[1]

\* The unmatched '[' reported after the loop: stack.pop(), the last pushed.
UnmatchedOpen(stack) == stack[Len(stack)]

\* build_jump_table: the result is [table, error], error being NoError when
\* the table is returned.
build_jump_table(v, code) ==
    LET st == build_jump_table_loop(v, code, 0, Len(code) - 1,
                  [table |-> EmptyDict, stack |-> <<>>, error |-> NoError])
    IN  IF st.error # NoError THEN [table |-> st.table, error |-> st.error]
        ELSE IF st.stack # <<>>
        THEN [table |-> st.table,
              error |-> Error("SyntaxError", "[", UnmatchedOpen(st.stack))]
        ELSE [table |-> st.table, error |-> NoError]

----------------------------------------------------------------------------
(* The interpreter state of one variant *)

\* Before parse_code has run.
Fresh ==
    [pc         |-> "parse",
     code       |-> <<>>,
     jump_table |-> EmptyDict,
     tape       |-> ZeroTape,
     ptr        |-> 0,
     ip         |-> 0,
     out        |-> <<>>,     \* character codes written by the program
     trace      |-> <<>>,     \* debug lines printed: <<ip, cmd, ptr, tape[ptr]>>
     nread      |-> 0,        \* lines consumed from standard input
     steps      |-> 0,        \* iterations of the while loop so far
     error      |-> NoError]

\* debug as run() sees it: main.py has the module constant DEBUG = False.
Debug(v) == IF v = "main" THEN FALSE ELSE debug

\* The program "+"*a ">" "+"*b "[<+>-]": the first two cells are set to a and
\* b and the transfer loop is entered with ptr = 1.
TransferLoop == <<"[", "<", "+", ">", "-", "]">>

TransferText(a, b) == Repeat("+", a) \o <<">">> \o Repeat("+", b) \o TransferLoop

SevenText == TransferText(2, 5) \o <<"<", ".">>

TransferA == {0, 1, CellMod - 1}
TransferB == {0, 1, 2, CellMod - 1}

TransferTexts ==
    {TransferText(a, b) : a \in TransferA, b \in TransferB} \cup {SevenText}

\* The iterations a run is followed for: a transfer program to its end (its
\* loop body has 6 instructions and is run less than CellMod times), any
\* other for MaxLoopSteps iterations more than its text has characters.
StepCap ==
    IF raw \in TransferTexts
    THEN Len(raw) + Len(TransferLoop) * CellMod
    ELSE Len(raw) + MaxLoopSteps

Raise(s, e) == [s EXCEPT !.pc = "error", !.error = e]

\* The end of a loop iteration that did not `continue`: the debug line, then
\* ip += 1.
Advance(v, s, cmd) ==
    [s EXCEPT !.trace = IF Debug(v)
                        THEN Append(@, <<s.ip, cmd, s.ptr, TapeGet(s.tape, s.ptr)>>)
                        ELSE @,
              !.ip = @ + 1]

\* AddCell with a cell that holds any integer.
AddCell_nowrap(v, s, cmd, d, count) ==
    IF count >= CellMod /\ nep50
    THEN Raise(s, Error("OverflowError", cmd, s.ip))
    ELSE Advance(v, [s EXCEPT !.tape = TapeSet(@, s.ptr, TapeGet(@, s.ptr) + d)], cmd)

\* tape[ptr] += d (d is count or -count).  The sum is formed from the
\* np.uint8 scalar tape[ptr] and the Python int count: numpy >= 2 refuses an
\* int that does not fit uint8 with OverflowError, numpy < 2 forms the wider
\* sum and wraps it on the store.
AddCell(v, s, cmd, d, count) ==
    IF count >= CellMod /\ nep50
    THEN Raise(s, Error("OverflowError", cmd, s.ip))
    ELSE Advance(v, [s EXCEPT !.tape =
                        TapeSet(@, s.ptr, (TapeGet(@, s.ptr) + d) % CellMod)], cmd)

\* ReadCell storing into the first cell of the tape.
ReadCell_first(v, s, cmd, line) ==
    IF line = EOF THEN Raise(s, Error("EOFError", cmd, s.ip))
    ELSE LET t == [s EXCEPT !.nread = @ + 1] IN
         IF line = <<>> THEN Raise(t, Error("IndexError", cmd, s.ip))
         ELSE IF line[1] >= CellMod /\ nep50
         THEN Raise(t, Error("OverflowError", cmd, s.ip))
         ELSE Advance(v, [t EXCEPT !.tape = TapeSet(@, 0, line[1] % CellMod)], cmd)

\* tape[ptr] = np.uint8(ord(input()[0])): line is what input() returns, or
\* EOF.  np.uint8 of a code above 255 raises OverflowError on numpy >= 2 and
\* wraps on numpy < 2.
ReadCell(v, s, cmd, line) ==
    IF line = EOF THEN Raise(s, Error("EOFError", cmd, s.ip))
    ELSE LET t == [s EXCEPT !.nread = @ + 1] IN
         IF line = <<>> THEN Raise(t, Error("IndexError", cmd, s.ip))
         ELSE IF line[1] >= CellMod /\ nep50
         THEN Raise(t, Error("OverflowError", cmd, s.ip))
         ELSE Advance(v, [t EXCEPT !.tape = TapeSet(@, s.ptr, line[1] % CellMod)], cmd)

\* Jump that lands behind the matching bracket.
Jump_advance(s) ==
    IF s.ip \in DOMAIN s.jump_table
    THEN [s EXCEPT !.ip = s.jump_table[s.ip] + 1]
    ELSE Raise(s, Error("KeyError", "", s.ip))

\* ip = jump_table[ip]; continue
Jump(s) ==
    IF s.ip \in DOMAIN s.jump_table
    THEN [s EXCEPT !.ip = s.jump_table[s.ip]]
    ELSE Raise(s, Error("KeyError", "", s.ip))

\* ptr = (ptr + count) % tape.size and ptr = (ptr - count) % tape.size;
\* Python's % with a positive modulus is never negative, as TLA+'s.
MoveRight(ptr, count) == (ptr + count) % TapeSize

\* MoveLeft without the wrap at the left end of the tape.
MoveLeft_nowrap(ptr, count) == ptr - count

MoveLeft(ptr, count) == (ptr - count) % TapeSize

\* One iteration of `while ip < len(code)`: the match statement, the debug
\* line and ip += 1.
ExecStep(v, s0, line) ==
    LET s     == [s0 EXCEPT !.steps = @ + 1]
        cmd   == Cmd(v, s.code, s.ip)
        count == Count(v, s.code, s.ip)
        cell  == TapeGet(s.tape, s.ptr)
    IN  CASE cmd = ">" -> Advance(v, [s EXCEPT !.ptr = MoveRight(@, count)], cmd)
          [] cmd = "<" -> Advance(v, [s EXCEPT !.ptr = MoveLeft(@, count)], cmd)
          [] cmd = "+" -> AddCell(v, s, cmd, count, count)
          [] cmd = "-" -> AddCell(v, s, cmd, 0 - count, count)
          [] cmd = "," -> ReadCell(v, s, cmd, line)
          [] cmd = "." -> Advance(v, [s EXCEPT !.out = @ \o Repeat(cell, count)], cmd)
          [] cmd = "[" -> IF cell = 0 THEN Jump(s) ELSE Advance(v, s, cmd)
          [] cmd = "]" -> IF cell # 0 THEN Jump(s) ELSE Advance(v, s, cmd)
          [] OTHER     -> IF v = "simple"
                          THEN Advance(v, s, cmd)
                          ELSE Raise(s, Error("RuntimeError", cmd, s.ip))

----------------------------------------------------------------------------
(* Actions *)

\* program = parse_code(f.read())
Parse(v) ==
    /\ m[v].pc = "parse"
    /\ m' = [m EXCEPT ![v] = [@ EXCEPT !.pc = "build", !.code = parse_code(v, raw)]]
    /\ UNCHANGED <<raw, debug, zsh, stdin, eof, nep50>>

\* The head of run(): the fresh tape, ptr = ip = 0, jump_table =
\* build_jump_table(code), which may raise SyntaxError.
Build(v) ==
    /\ m[v].pc = "build"
    /\ LET r == build_jump_table(v, m[v].code) IN
       m' = [m EXCEPT ![v] =
               IF r.error # NoError
               THEN Raise([@ EXCEPT !.tape = ZeroTape, !.ptr = 0, !.ip = 0], r.error)
               ELSE [@ EXCEPT !.pc = "run", !.tape = ZeroTape, !.ptr = 0, !.ip = 0,
                              !.jump_table = r.table]]
    /\ UNCHANGED <<raw, debug, zsh, stdin, eof, nep50>>

\* One iteration of the while loop that reads no input.
Exec(v) ==
    /\ m[v].pc = "run"
    /\ m[v].ip < Len(m[v].code)
    /\ m[v].steps < StepCap
    /\ Cmd(v, m[v].code, m[v].ip) # ","
    /\ m' = [m EXCEPT ![v] = ExecStep(v, @, EOF)]
    /\ UNCHANGED <<raw, debug, zsh, stdin, eof, nep50>>

\* One iteration of the while loop on ',': input() returns the next line of
\* standard input, which is the line another variant already got at that
\* place, or else whatever the user types now (or end of file).
Read(v) ==
    /\ m[v].pc = "run"
    /\ m[v].ip < Len(m[v].code)
    /\ m[v].steps < StepCap
    /\ Cmd(v, m[v].code, m[v].ip) = ","
    /\ \/ /\ m[v].nread < Len(stdin)
          /\ m' = [m EXCEPT ![v] = ExecStep(v, @, stdin[m[v].nread + 1])]
          /\ UNCHANGED <<stdin, eof>>
       \/ /\ m[v].nread = Len(stdin)
          /\ ~eof
          /\ \E line \in Lines :
               /\ stdin' = Append(stdin, line)
               /\ m' = [m EXCEPT ![v] = ExecStep(v, @, line)]
          /\ UNCHANGED eof
       \/ /\ m[v].nread = Len(stdin)
          /\ eof' = TRUE
          /\ m' = [m EXCEPT ![v] = ExecStep(v, @, EOF)]
          /\ UNCHANGED stdin
    /\ UNCHANGED <<raw, debug, zsh, nep50>>

\* Exit with the print() done whatever the shell is.
Exit_newline(v) ==
    /\ m[v].pc = "run"
    /\ m[v].ip >= Len(m[v].code)
    /\ m' = [m EXCEPT ![v] = [@ EXCEPT !.pc = "done", !.out = Append(@, 10)]]
    /\ UNCHANGED <<raw, debug, zsh, stdin, eof, nep50>>

\* The loop ends with ip at the end of the program; then print() when the
\* shell is zsh.
Exit(v) ==
    /\ m[v].pc = "run"
    /\ m[v].ip >= Len(m[v].code)
    /\ m' = [m EXCEPT ![v] = [@ EXCEPT !.pc = "done",
                                       !.out = IF zsh THEN Append(@, 10) ELSE @]]
    /\ UNCHANGED <<raw, debug, zsh, stdin, eof, nep50>>

Next ==
    \/ \E v \in DOMAIN m : Parse(v)
    \/ \E v \in DOMAIN m : Build(v)
    \/ \E v \in DOMAIN m : Exec(v)
    \/ \E v \in DOMAIN m : Read(v)
    \/ \E v \in DOMAIN m : Exit(v)

----------------------------------------------------------------------------
(* Specifications *)

Texts(n) == UNION {[1..k -> Alphabet] : k \in 0..n}

\* One variant run on one source text.
Init ==
    /\ raw \in Texts(MaxLen)
    /\ debug \in BOOLEAN
    /\ zsh \in BOOLEAN
    /\ stdin = <<>>
    /\ eof = FALSE
    /\ nep50 \in BOOLEAN
    /\ \E v \in Variants : m = [x \in {v} |-> Fresh]

Spec == Init /\ [][Next]_vars

\* 01_simple.py and 02_batch.py run side by side on the same source text,
\* the same standard input and the same shell, without --debug.  The texts
\* are the short ones and a few with a run of CellMod equal operators.
LongTexts ==
    {Repeat("+", CellMod), Repeat("-", CellMod), Repeat("+", CellMod) \o <<".">>}

PairInit ==
    /\ raw \in Texts(PairMaxLen) \cup LongTexts
    /\ debug = FALSE
    /\ zsh \in BOOLEAN
    /\ stdin = <<>>
    /\ eof = FALSE
    /\ nep50 \in BOOLEAN
    /\ m = [x \in {"simple", "batch"} |-> Fresh]

PairSpec == PairInit /\ [][Next]_vars

\* One variant run on a source text of brackets, '+', ',' and comments.
BracketAlphabet == {"[", "]", "+", ",", "x"}

BracketInit ==
    /\ raw \in UNION {[1..k -> BracketAlphabet] : k \in 0..BracketMaxLen}
    /\ debug = FALSE
    /\ zsh = FALSE
    /\ stdin = <<>>
    /\ eof = FALSE
    /\ nep50 \in BOOLEAN
    /\ \E v \in Variants : m = [x \in {v} |-> Fresh]

BracketSpec == BracketInit /\ [][Next]_vars

\* run(code) of 01_simple.py and run(ops) of 02_batch.py called on a program
\* that did not come out of parse_code: any string, any list of
\* (operator, count) pairs.  (main.py has no such entry: its loop is in
\* main(file), behind parse_code.)
RunCodes(v) ==
    IF v = "batch"
    THEN UNION {[1..k -> Alphabet \X (1..RunMaxCount)] : k \in 0..RunMaxLen}
    ELSE Texts(RunMaxLen)

RunInit ==
    /\ raw = <<>>
    /\ debug = FALSE
    /\ zsh = FALSE
    /\ stdin = <<>>
    /\ eof = FALSE
    /\ nep50 \in BOOLEAN
    /\ \E v \in {"simple", "batch"} : \E code \in RunCodes(v) :
         m = [x \in {v} |-> [Fresh EXCEPT !.pc = "build", !.code = code]]

RunNext ==
    \/ \E v \in DOMAIN m : Build(v)
    \/ \E v \in DOMAIN m : Exec(v)
    \/ \E v \in DOMAIN m : Read(v)
    \/ \E v \in DOMAIN m : Exit(v)

RunSpec == RunInit /\ [][RunNext]_vars

\* One variant run on a transfer program.  These programs read no input.
TransferInit ==
    /\ raw \in TransferTexts
    /\ debug = FALSE
    /\ zsh = FALSE
    /\ stdin = <<>>
    /\ eof = FALSE
    /\ nep50 \in BOOLEAN
    /\ \E v \in Variants : m = [x \in {v} |-> Fresh]

TransferNext ==
    \/ \E v \in DOMAIN m : Parse(v)
    \/ \E v \in DOMAIN m : Build(v)
    \/ \E v \in DOMAIN m : Exec(v)
    \/ \E v \in DOMAIN m : Exit(v)

TransferSpec == TransferInit /\ [][TransferNext]_vars

----------------------------------------------------------------------------
(* Notions the properties are stated with *)

\* The Source Filter's output for the text: the operator characters, in order.
Filtered == parse_code_simple(raw)

\* The operators of a program of variant v, instruction by instruction.
OpsOf(v, code) == [i \in 1..Len(code) |-> Cmd(v, code, i - 1)]

\* How many of seq[lo..hi] are c.
NumIn(seq, c, lo, hi) == Cardinality({i \in lo..hi : seq[i] = c})

\* The ']' of seq[lo..hi] less the '[' of it.
Excess(seq, lo, hi) == NumIn(seq, "]", lo, hi) - NumIn(seq, "[", lo, hi)

\* seq[lo..hi] has balanced, properly nested brackets.
BalancedIn(seq, lo, hi) ==
    /\ Excess(seq, lo, hi) = 0
    /\ \A k \in lo..hi : Excess(seq, lo, k) <= 0

Balanced(seq) == BalancedIn(seq, 1, Len(seq))

IsPrefix(a, b) == Len(a) <= Len(b) /\ SubSeq(b, 1, Len(a)) = a

\* build_jump_table has returned or raised.
Built(s) == s.pc \notin {"parse", "build"}

Terminated(s) == s.pc \in {"done", "error"}

BracketError(s) == s.pc = "error" /\ s.error.type = "SyntaxError"

Both == {"simple", "batch"} \subseteq DOMAIN m

----------------------------------------------------------------------------
(* Properties *)

\* C1: the direct variant on filter(P) and the run-length variant on
\* encode(P) have the same outcome on the same input: both fail with a
\* bracket error or both run, the output of one is at every point a prefix of
\* the other's, and once both have ended they have written the same bytes.
\* (Fails: "[[]" is refused by 01_simple.py and run by 02_batch.py.)
C1_SameOutcome ==
    Both =>
        LET s == m["simple"]
            b == m["batch"]
        IN  /\ (Built(s) /\ Built(b)) => (BracketError(s) <=> BracketError(b))
            /\ IsPrefix(s.out, b.out) \/ IsPrefix(b.out, s.out)
            /\ (Terminated(s) /\ Terminated(b)) => s.out = b.out

\* C2: every '[' or ']' instruction the run-length encoder emits has repeat
\* count 1, so the encoded program has as many '[' and as many ']'
\* instructions as the filtered source has '[' and ']' characters.
\* (Fails: "[[" is encoded as the single instruction ('[', 2).)
C2_BracketsNeverMerged ==
    \A v \in DOMAIN m :
        (v = "batch" /\ m[v].pc # "parse") =>
            LET code == m[v].code
                ops  == OpsOf(v, code)
            IN  /\ \A i \in 1..Len(code) :
                       code[i][1] \in {"[", "]"} => code[i][2] = 1
                /\ \A c \in {"[", "]"} :
                       NumIn(ops, c, 1, Len(ops)) = NumIn(Filtered, c, 1, Len(Filtered))

\* C3: in every variant a source text whose filtered operators are not
\* balanced and properly nested fails with a bracket error in
\* build_jump_table, with no instruction executed, nothing written and no
\* input line consumed.
\* (Fails: 02_batch.py runs "[[]" as ('[', 2), (']', 1) to the end.)
C3_UnbalancedRefused ==
    \A v \in DOMAIN m :
        (Built(m[v]) /\ ~Balanced(Filtered)) =>
            /\ BracketError(m[v])
            /\ m[v].steps = 0
            /\ m[v].out = <<>>
            /\ m[v].trace = <<>>
            /\ m[v].nread = 0

\* The 0-based index i is the first at which the instructions up to and
\* including i hold more ']' than '['.
FirstExcessAt(ops, i) ==
    /\ Excess(ops, 1, i + 1) > 0
    /\ \A j \in 0..(i - 1) : Excess(ops, 1, j + 1) <= 0

\* The 0-based indices of the '[' that no later ']' closes.
UnmatchedOpens(ops) ==
    {i \in 0..(Len(ops) - 1) :
        /\ ops[i + 1] = "["
        /\ ~\E j \in (i + 1)..(Len(ops) - 1) : Excess(ops, i + 2, j + 1) > 0}

Max(S) == CHOOSE x \in S : \A y \in S : y <= x

\* C4: build_jump_table fails with the unmatched-']' error naming index i
\* exactly when i is the smallest index such that the instructions up to
\* and including i hold more ']' than '[', whatever '[' are left open
\* elsewhere.
C4_UnmatchedClose ==
    \A v \in DOMAIN m :
        Built(m[v]) =>
            LET ops == OpsOf(v, m[v].code) IN
            /\ \A i \in 0..(Len(ops) - 1) :
                   (m[v].error = Error("SyntaxError", "]", i)) <=> FirstExcessAt(ops, i)
            /\ (BracketError(m[v]) /\ m[v].error.what = "]")
                   => m[v].error.position \in 0..(Len(ops) - 1)

\* C4's case: an unmatched ']' reported at an index after the first, with a
\* '[' after it that nothing closes.
C4_Witness ==
    \E v \in DOMAIN m :
        LET ops == OpsOf(v, m[v].code) IN
        /\ BracketError(m[v])
        /\ m[v].error.what = "]"
        /\ m[v].error.position >= 1
        /\ \E j \in UnmatchedOpens(ops) : j > m[v].error.position

\* C5: when no prefix of the instructions holds more ']' than '[' and some
\* '[' is left open, build_jump_table fails with the unmatched-'[' error
\* naming the largest index among the '[' left open: one error, however many
\* are open.  As instruction sequences "[" and "[[]" report 0, "[[" reports 1.
C5_UnmatchedOpen ==
    \A v \in DOMAIN m :
        Built(m[v]) =>
            LET ops == OpsOf(v, m[v].code) IN
            /\ ((\A k \in 1..Len(ops) : Excess(ops, 1, k) <= 0) /\ UnmatchedOpens(ops) # {})
                  => m[v].error = Error("SyntaxError", "[", Max(UnmatchedOpens(ops)))
            /\ ops \in {<<"[">>, <<"[", "[", "]">>} => m[v].error = Error("SyntaxError", "[", 0)
            /\ ops = <<"[", "[">> => m[v].error = Error("SyntaxError", "[", 1)

\* C5's case: several '[' are open at the end of the scan and the last of
\* them, not the first, is reported.
C5_Witness ==
    \E v \in DOMAIN m :
        LET ops == OpsOf(v, m[v].code) IN
        /\ BracketError(m[v])
        /\ m[v].error.what = "["
        /\ Cardinality(UnmatchedOpens(ops)) >= 2
        /\ m[v].error.position = Max(UnmatchedOpens(ops))
        /\ m[v].error.position >= 1

\* C6: when build_jump_table succeeds, the table's keys are exactly the
\* indices of the bracket instructions, table[table[i]] = i for each, every
\* '[' at i maps to a ']' at some j > i, and the instructions strictly between
\* i and j are balanced.
C6_JumpTable ==
    \A v \in DOMAIN m :
        (Built(m[v]) /\ ~BracketError(m[v])) =>
            LET ops == OpsOf(v, m[v].code)
                t   == m[v].jump_table
            IN  /\ DOMAIN t = {i \in 0..(Len(ops) - 1) : ops[i + 1] \in {"[", "]"}}
                /\ \A i \in DOMAIN t :
                       /\ t[i] \in DOMAIN t
                       /\ t[t[i]] = i
                       /\ ops[i + 1] = "[" =>
                              /\ t[i] > i
                              /\ ops[t[i] + 1] = "]"
                              /\ BalancedIn(ops, i + 2, t[i])

\* C6's case: a table built for nested loops, "[[...]...]".
C6_Witness ==
    \E v \in DOMAIN m :
        LET t == m[v].jump_table IN
        /\ m[v].pc = "run"
        /\ \E i, k \in DOMAIN t : i < k /\ k < t[k] /\ t[k] < t[i]

\* A step in which variant v completes an iteration on the operator c and
\* the loop goes on.
Completes(v, c) ==
    /\ m[v].pc = "run"
    /\ m'[v].pc = "run"
    /\ m'[v].steps = m[v].steps + 1
    /\ Cmd(v, m[v].code, m[v].ip) = c

\* C7: in run-length mode an instruction (',', n) consumes exactly n lines
\* of input and leaves in tape[ptr] the code (as a byte) of the first
\* character of the last of them; so the direct and the run-length variant,
\* run to the end on the same text, have consumed equally many lines.
\* (Fails: ",," is (',', 2) and 02_batch.py calls input() once for it.)
C7_ReadsPerRepetition ==
    /\ [][\A v \in DOMAIN m :
            (v = "batch" /\ Completes(v, ",")) =>
                LET n == Count(v, m[v].code, m[v].ip) IN
                /\ m'[v].nread = m[v].nread + n
                /\ TapeGet(m'[v].tape, m[v].ptr) = stdin'[m'[v].nread][1] % CellMod]_vars
    /\ [](Both => ((m["simple"].pc = "done" /\ m["batch"].pc = "done")
                     => m["simple"].nread = m["batch"].nread))

\* The operator characters the first k instructions of a run-length program
\* stand for.
RECURSIVE SumCounts(_, _)
SumCounts(code, k) == IF k = 0 THEN 0 ELSE SumCounts(code, k - 1) + code[k][2]

\* C8: for op among > < + - . and every repeat count n >= 1, n >= 256
\* included, executing (op, n) once in the run-length variant yields the ptr,
\* the tape and the output that executing op n times yields in the direct
\* variant.  Stated of the two variants run on the same text: when the direct
\* variant has executed, without error, exactly the operators that the
\* instructions the run-length variant has executed stand for, all of them
\* among > < + - . , the run-length variant has not failed and the two agree
\* on ptr, tape and output.
\* (Fails: 256 '+' is ('+', 256), on which numpy >= 2 raises OverflowError.)
C8_CountedStep ==
    Both =>
        LET s == m["simple"]
            b == m["batch"]
        IN  ( /\ s.pc = "run"
              /\ b.pc \in {"run", "error"}
              /\ s.steps = s.ip
              /\ \A i \in 1..s.ip : s.code[i] \in {">", "<", "+", "-", "."}
              /\ b.steps <= Len(b.code)
              /\ SumCounts(b.code, b.steps) = s.ip )
            => /\ b.pc = "run"
               /\ b.ptr = s.ptr
               /\ b.tape = s.tape
               /\ b.out = s.out

\* C9: in every reachable state of every variant 0 <= ptr < TapeSize, and no
\* cell outside the tape is ever written; a single '<' at ptr = 0 moves ptr
\* to TapeSize - 1 and a single '>' at ptr = TapeSize - 1 moves it to 0.
C9_PtrInRange ==
    /\ [](\A v \in DOMAIN m :
            /\ m[v].ptr \in 0..(TapeSize - 1)
            /\ DOMAIN m[v].tape \subseteq 0..(TapeSize - 1))
    /\ [][\A v \in DOMAIN m :
            (Completes(v, "<") /\ Count(v, m[v].code, m[v].ip) = 1 /\ m[v].ptr = 0)
                => m'[v].ptr = TapeSize - 1]_vars
    /\ [][\A v \in DOMAIN m :
            (Completes(v, ">") /\ Count(v, m[v].code, m[v].ip) = 1
                               /\ m[v].ptr = TapeSize - 1)
                => m'[v].ptr = 0]_vars

\* C9's case: a run has executed '<' at ptr = 0 and then '>' at the last
\* cell, and is back at ptr = 0.
C9_Witness ==
    \E v \in DOMAIN m :
        /\ m[v].pc = "run"
        /\ m[v].steps = 2
        /\ m[v].ip = 2
        /\ Cmd(v, m[v].code, 0) = "<"
        /\ Cmd(v, m[v].code, 1) = ">"
        /\ m[v].ptr = 0

\* A step in which variant v executes '+' or '-'.
Arithmetic(v) ==
    /\ m[v].pc = "run"
    /\ m'[v].steps = m[v].steps + 1
    /\ Cmd(v, m[v].code, m[v].ip) \in {"+", "-"}

\* C10: every cell holds a value in 0..255 in every reachable state and cell
\* arithmetic wraps without raising an error: '+' on 255 gives 0, '-' on 0
\* gives 255, and a text of 256 '+' (or 256 '-') runs to the end with the
\* cell back at its starting value.
\* (Fails in 02_batch.py: 256 '+' is ('+', 256), and numpy >= 2 raises
\* OverflowError on tape[ptr] += 256.)
C10_CellsWrap ==
    /\ [](\A v \in DOMAIN m : \A i \in DOMAIN m[v].tape : m[v].tape[i] \in 0..(CellMod - 1))
    /\ [][\A v \in DOMAIN m : Arithmetic(v) => m'[v].pc = "run"]_vars
    /\ [][\A v \in DOMAIN m :
            (Completes(v, "+") /\ Count(v, m[v].code, m[v].ip) = 1
                               /\ TapeGet(m[v].tape, m[v].ptr) = CellMod - 1)
                => TapeGet(m'[v].tape, m[v].ptr) = 0]_vars
    /\ [][\A v \in DOMAIN m :
            (Completes(v, "-") /\ Count(v, m[v].code, m[v].ip) = 1
                               /\ TapeGet(m[v].tape, m[v].ptr) = 0)
                => TapeGet(m'[v].tape, m[v].ptr) = CellMod - 1]_vars
    /\ [](\A v \in DOMAIN m :
            (raw \in {Repeat("+", CellMod), Repeat("-", CellMod)} /\ Terminated(m[v]))
                => (m[v].pc = "done" /\ m[v].tape = ZeroTape))

\* C11: with debug enabled a debug line is printed after every executed
\* instruction, a '[' or ']' that takes its jump included: while a run goes
\* on or has ended normally, it has printed as many debug lines as it has
\* executed instructions.
\* (Fails: a bracket that jumps leaves the iteration with `continue`, before
\* the debug line; "[]" executes two instructions and prints one line.)
C11_TraceEveryStep ==
    \A v \in DOMAIN m :
        (Debug(v) /\ m[v].pc \in {"run", "done"}) => Len(m[v].trace) = m[v].steps

\* C12: in the execution loop an instruction whose operator is none of the
\* eight ends the run with a fatal error at that instruction: the iteration
\* that meets it raises RuntimeError and leaves ip on it, it never goes on
\* with ip advanced.
\* (Fails: the match statement of 01_simple.py has no `case _`, the
\* instruction is passed over.)
C12_InvalidIsFatal ==
    [][\A v \in DOMAIN m :
          (/\ m[v].pc = "run"
           /\ m[v].ip < Len(m[v].code)
           /\ Cmd(v, m[v].code, m[v].ip) \notin Ops
           /\ m'[v].steps = m[v].steps + 1)
          => /\ m'[v].pc = "error"
             /\ m'[v].error.type = "RuntimeError"
             /\ m'[v].error.position = m[v].ip
             /\ m'[v].ip = m[v].ip]_vars

\* C13 as stated: a program that is empty after filtering completes with no
\* instruction executed, no error and nothing written, whatever the
\* environment.
\* (Fails: under zsh the run ends with print(), one newline.)
C13_NothingWritten ==
    \A v \in DOMAIN m :
        (Filtered = <<>> /\ Built(m[v]))
        => /\ m[v].pc \in {"run", "done"}
           /\ m[v].steps = 0
           /\ m[v].error = NoError
           /\ m[v].out = <<>>

\* C13, amended: a program that is empty after filtering completes with no
\* instruction executed and no error (the loop condition fails at once: ip
\* is 0, the length of the program); no debug line and no input are used,
\* and nothing is written, except the one newline that ends every normal run
\* when the shell is zsh.
C13_EmptyProgram ==
    \A v \in DOMAIN m :
        (Filtered = <<>> /\ Built(m[v]))
        => /\ m[v].pc \in {"run", "done"}
           /\ m[v].ip = 0 /\ Len(m[v].code) = 0
           /\ m[v].steps = 0
           /\ m[v].error = NoError
           /\ m[v].trace = <<>> /\ m[v].nread = 0
           /\ m[v].out = IF m[v].pc = "done" /\ zsh THEN <<10>> ELSE <<>>

\* A text of comments only has run to its end under zsh.
C13_Witness ==
    \E v \in DOMAIN m :
        raw # <<>> /\ Filtered = <<>> /\ m[v].pc = "done" /\ zsh /\ m[v].out = <<10>>

\* The while loop of a run has ended: ip is at the end of the program.
LoopEnded(s) == s.pc = "run" /\ s.ip >= Len(s.code)

\* The iterations the transfer loop takes when entered with tape[ptr] = b:
\* '[' and ']' when b is 0, else b times the six instructions.
TransferLoopSteps(b) == IF b = 0 THEN 2 ELSE Len(TransferLoop) * b

\* A run that never fails, executes at most n iterations in all and has
\* executed fewer than n as long as its loop has not ended: it ends.
EndsWithin(s, n) ==
    /\ s.error = NoError
    /\ s.steps <= n
    /\ (s.pc = "run" /\ s.ip < Len(s.code)) => s.steps < n

Cell(s) == TapeGet(s.tape, s.ptr)

\* C15: an iteration on '[' with tape[ptr] = 0 sets ip to the index of the
\* matching ']' and no further, the cell is still 0 there, so that the next
\* iteration is that ']' falling through and the loop body is not executed;
\* an iteration on ']' with tape[ptr] # 0 sets ip to the matching '[' and no
\* further; every other iteration that completes ('[' on a non-zero cell and
\* ']' on a zero cell included) adds exactly 1 to ip.
C15_JumpRule ==
    [][\A v \in DOMAIN m :
          LET s   == m[v]
              t   == m'[v]
              cmd == Cmd(v, s.code, s.ip)
          IN  Completes(v, cmd) =>
                IF cmd = "[" /\ Cell(s) = 0
                THEN /\ t.ip = s.jump_table[s.ip]
                     /\ t.ip > s.ip
                     /\ Cmd(v, t.code, t.ip) = "]"
                     /\ Cell(t) = 0
                ELSE IF cmd = "]" /\ Cell(s) # 0
                THEN /\ t.ip = s.jump_table[s.ip]
                     /\ t.ip < s.ip
                     /\ Cmd(v, t.code, t.ip) = "["
                ELSE t.ip = s.ip + 1]_vars

\* '[' has jumped over a loop body of one instruction and its ']' has fallen
\* through: two iterations, ip at the end of three instructions.
C15_Witness ==
    \E v \in DOMAIN m :
        /\ m[v].pc = "run"
        /\ Len(m[v].code) = 3
        /\ Cmd(v, m[v].code, 0) = "[" /\ Cmd(v, m[v].code, 2) = "]"
        /\ m[v].steps = 2 /\ m[v].ip = 3

\* The operators that a list of (operator, count) pairs stands for: each
\* operator repeated count times, in order.
RECURSIVE Expand(_)
Expand(ops) ==
    IF ops = <<>> THEN <<>>
    ELSE Repeat(ops[1][1], ops[1][2]) \o Expand(Tail(ops))

\* C16: the run-length encoder is lossless: in the list that 02_batch.py
\* parses a text to, every count is at least 1 and the operators repeated
\* count times, in order, are exactly the filtered text (so the last run is
\* there too); a text without operators encodes to the empty list.
C16_Lossless ==
    \A v \in DOMAIN m :
        (v = "batch" /\ m[v].pc # "parse")
        => /\ \A i \in 1..Len(m[v].code) :
                m[v].code[i][1] \in Ops /\ m[v].code[i][2] >= 1
           /\ Expand(m[v].code) = Filtered
           /\ (Filtered = <<>>) => (m[v].code = <<>>)

\* A text with a comment inside a run has been encoded: the run of two ends
\* the list and the comment is gone.
C16_Witness ==
    \E v \in DOMAIN m :
        /\ v = "batch" /\ m[v].pc # "parse"
        /\ Len(raw) > Len(Filtered)
        /\ Len(m[v].code) >= 1
        /\ m[v].code[Len(m[v].code)][2] = 2

\* The program of variant v has no bracket.
NoBrackets(v) ==
    \A i \in 1..Len(m[v].code) : Cmd(v, m[v].code, i - 1) \notin {"[", "]"}

\* Standard input has had a line for every read so far, each with a first
\* character that is a byte.
InputGiven ==
    /\ ~eof
    /\ \A i \in 1..Len(stdin) : stdin[i] # <<>> /\ stdin[i][1] < CellMod

\* C17: a run of a program without brackets that is given a line of input
\* for each of its reads terminates: it never fails, ip goes up by 1 at each
\* iteration (ip is the number of iterations executed), and it ends with
\* ip = len(program) after len(program) iterations; whereas "+[]", a valid
\* program with a loop, never gets ip to len(program).
\* (Fails: 02_batch.py stops with OverflowError on a run of 256 '+' when
\* numpy is 2 or later.)
C17_StraightLine ==
    \A v \in DOMAIN m :
        /\ (Built(m[v]) /\ NoBrackets(v) /\ InputGiven)
           => /\ m[v].pc \in {"run", "done"}
              /\ m[v].steps = m[v].ip
              /\ m[v].ip <= Len(m[v].code)
              /\ (m[v].pc = "done") => (m[v].ip = Len(m[v].code))
        /\ (Built(m[v]) /\ raw = <<"+", "[", "]">>)
           => (m[v].pc = "run" /\ m[v].ip < Len(m[v].code))

\* The next iteration of variant v is a bracket that takes its jump.
TakesJump(v) ==
    /\ m[v].pc = "run"
    /\ m[v].ip < Len(m[v].code)
    /\ \/ Cmd(v, m[v].code, m[v].ip) = "[" /\ Cell(m[v]) = 0
       \/ Cmd(v, m[v].code, m[v].ip) = "]" /\ Cell(m[v]) # 0

\* C18: in every state of a run of a program that build_jump_table accepted,
\* 0 <= ip <= len(program); and when a bracket takes its jump, ip is a key
\* of the jump table (no KeyError: the run goes on) and the target is the
\* index of an instruction, which is the opposite bracket.
C18_IpInRange ==
    /\ [](\A v \in DOMAIN m :
            (Built(m[v]) /\ ~BracketError(m[v])) => m[v].ip \in 0..Len(m[v].code))
    /\ [][\A v \in DOMAIN m :
            (TakesJump(v) /\ m'[v].steps = m[v].steps + 1)
            => /\ m[v].ip \in DOMAIN m[v].jump_table
               /\ m'[v].pc = "run"
               /\ m'[v].ip = m[v].jump_table[m[v].ip]
               /\ m'[v].ip \in 0..(Len(m[v].code) - 1)
               /\ Cmd(v, m[v].code, m'[v].ip)
                    = (IF Cmd(v, m[v].code, m[v].ip) = "[" THEN "]" ELSE "[")]_vars

\* A ']' has jumped back: the run is on a '[' with a non-zero cell and has
\* executed more iterations than there are instructions before it.
C18_Witness ==
    \E v \in DOMAIN m :
        /\ m[v].pc = "run"
        /\ m[v].ip < Len(m[v].code)
        /\ Cmd(v, m[v].code, m[v].ip) = "["
        /\ Cell(m[v]) # 0
        /\ m[v].steps > m[v].ip + 1

\* Every cell but tape[ptr] is in t what it is in s.
OtherCellsSame(s, t) ==
    \A i \in (DOMAIN s.tape \cup DOMAIN t.tape) \ {s.ptr} :
        TapeGet(t.tape, i) = TapeGet(s.tape, i)

\* C19: an iteration changes only what its operator names.  '>' and '<'
\* leave the tape, the output and the input consumed as they are; '+', '-'
\* and ',' leave ptr, the output and every cell but tape[ptr] as they are
\* ('+' and '-' the input consumed too); '.' leaves the tape, ptr and the
\* input consumed; '[' and ']' leave everything but ip.  No iteration prints
\* a debug line unless debug is on, and the program and the jump table stay
\* as they are for the whole run.
C19_Frame ==
    [][\A v \in DOMAIN m :
          LET s   == m[v]
              t   == m'[v]
              cmd == Cmd(v, s.code, s.ip)
          IN  /\ s.pc = "run" => (t.code = s.code /\ t.jump_table = s.jump_table)
              /\ (s.pc = "run" /\ t.steps = s.steps + 1) =>
                   /\ ~Debug(v) => t.trace = s.trace
                   /\ cmd \in {">", "<"} =>
                        (t.tape = s.tape /\ t.out = s.out /\ t.nread = s.nread)
                   /\ cmd \in {"+", "-"} =>
                        /\ t.ptr = s.ptr /\ t.out = s.out /\ t.nread = s.nread
                        /\ OtherCellsSame(s, t)
                   /\ cmd = "," =>
                        (t.ptr = s.ptr /\ t.out = s.out /\ OtherCellsSame(s, t))
                   /\ cmd = "." =>
                        (t.tape = s.tape /\ t.ptr = s.ptr /\ t.nread = s.nread)
                   /\ cmd \in {"[", "]"} =>
                        /\ t.tape = s.tape /\ t.ptr = s.ptr
                        /\ t.out = s.out /\ t.nread = s.nread]_vars

\* ',' has stored a character in the second cell and the first cell has
\* kept its non-zero value.
C19_Witness ==
    \E v \in DOMAIN m :
        /\ m[v].pc = "run"
        /\ m[v].nread = 1 /\ m[v].ptr = 1
        /\ TapeGet(m[v].tape, 0) # 0 /\ TapeGet(m[v].tape, 1) # 0

====
